---- MODULE Spec2Model ----
(***************************************************************************)
(* System Specs Collector (system_specs_collector/cli.py).                 *)
(*                                                                         *)
(* The program queries the host (platform, psutil, optional GPUtil),       *)
(* assembles a nested report, and renders it as text, CSV or JSON.         *)
(*                                                                         *)
(* Python values are modelled by records of one shape                      *)
(*     [kind, str, keys, kids]                                             *)
(* kind "str" / "num": a scalar, str holds its text (for a number the text *)
(*                     Python's str() gives);                              *)
(* kind "dict": keys[i] maps to kids[i], in insertion order;               *)
(* kind "list": kids are the elements, keys is empty;                      *)
(* kind "none": Python's None;                                             *)
(* kind "exc":  not a value: the evaluation raised, str names the cause.   *)
(* Strings are TLA+ strings, so that path formatting is real concatenation.*)
(***************************************************************************)
EXTENDS Integers, Sequences, FiniteSets, TLC

VARIABLES
    pc,        \* position of main(): "start", "collected", "done", "crashed"
    env,       \* what the host's facilities answer (read-only input)
    fmt,       \* args.format
    data,      \* the report held by main()
    flat,      \* flat_data of save_to_csv / result of flatten_dict
    out,       \* lines printed to standard output
    file,      \* the output file: [exists, rows, text]
    handle,    \* the file object of the save: "none", "open", "closed"
    raised,    \* exception that escaped to the top level, "none" if none
    io,        \* where the file system failed during the save
    calls      \* the host facilities queried so far

vars == <<pc, env, fmt, data, flat, out, file, handle, raised, io, calls>>

(***************************************************************************)
(* Bounds of the model.                                                    *)
(***************************************************************************)
MaxPartitions == 2   \* partitions psutil.disk_partitions() may enumerate
MaxGpus == 2         \* devices GPUtil.getGPUs() may return
MaxFailRow == 3      \* the failing writerow call is among the first MaxFailRow
MaxWidth == 2        \* entries of a container given to flatten_dict alone
NestDepth == 1       \* containers nested inside a value of that mapping

(***************************************************************************)
(* Python values.                                                          *)
(***************************************************************************)
Str(s) == [kind |-> "str", str |-> s, keys |-> <<>>, kids |-> <<>>]
Num(s) == [kind |-> "num", str |-> s, keys |-> <<>>, kids |-> <<>>]
Dict(ks, vs) == [kind |-> "dict", str |-> "", keys |-> ks, kids |-> vs]
List(vs) == [kind |-> "list", str |-> "", keys |-> <<>>, kids |-> vs]
None == [kind |-> "none", str |-> "None", keys |-> <<>>, kids |-> <<>>]
Exc(cause) == [kind |-> "exc", str |-> cause, keys |-> <<>>, kids |-> <<>>]
EmptyDict == Dict(<<>>, <<>>)

IsScalar(v) == v.kind \in {"str", "num", "none"}
IsExc(v) == v.kind = "exc"

\* k in d
HasKey(d, k) == \E i \in 1..Len(d.keys) : d.keys[i] = k
\* d.get(k, default)
Get(d, k, default) ==
    IF HasKey(d, k)
    THEN d.kids[CHOOSE i \in 1..Len(d.keys) : d.keys[i] = k]
    ELSE default
\* d.items()
Items(d) == [i \in 1..Len(d.keys) |-> <<d.keys[i], d.kids[i]>>]

\* dict(items): the keys in the order of their first occurrence, each with
\* the value of its last occurrence.
dict_of(items) ==
    LET first == SelectSeq([i \in 1..Len(items) |-> i],
                           LAMBDA i : \A j \in 1..(i - 1) : items[j][1] # items[i][1])
        last(k) == CHOOSE i \in 1..Len(items) :
                        /\ items[i][1] = k
                        /\ \A j \in (i + 1)..Len(items) : items[j][1] # k
    IN Dict([n \in 1..Len(first) |-> items[first[n]][1]],
            [n \in 1..Len(first) |-> items[last(items[first[n]][1])][2]])

\* str(v) as the f-strings and csv.writer apply it to a scalar.
PyStr(v) == v.str

(***************************************************************************)
(* flatten_dict (cli.py 23-38).                                            *)
(***************************************************************************)
sep == ": "

\* f"{new_key} [{i}]", i counted from 0
IndexKey(new_key, i) == new_key \o " [" \o ToString(i) \o "]"

RECURSIVE flatten_dict(_, _), flatten_items(_, _, _), flatten_list(_, _, _)
\* the loop "for i, item in enumerate(v)" from element n on
flatten_list(v, new_key, n) ==
    IF n > Len(v.kids) THEN <<>>
    ELSE LET item == v.kids[n]
         IN (IF item.kind = "dict"
             THEN Items(flatten_dict(item, IndexKey(new_key, n - 1)))
             ELSE << <<IndexKey(new_key, n - 1), item>> >>)
            \o flatten_list(v, new_key, n + 1)
\* the loop "for k, v in d.items()" from entry n on
flatten_items(d, parent_key, n) ==
    IF n > Len(d.keys) THEN <<>>
    ELSE LET k == d.keys[n]
             v == d.kids[n]
             new_key == IF parent_key # "" THEN parent_key \o sep \o k ELSE k
         IN (CASE v.kind = "dict" -> Items(flatten_dict(v, new_key))
               [] v.kind = "list" -> flatten_list(v, new_key, 1)
               [] OTHER -> << <<new_key, v>> >>)
            \o flatten_items(d, parent_key, n + 1)
flatten_dict(d, parent_key) ==
    dict_of(flatten_items(d, parent_key, 1))

(***************************************************************************)
(* The host.  env records what each facility answers:                      *)
(*   os, mem, disk, gpu : "ok" or "fail" (the query raises);               *)
(*   cpu  : "freq", "nofreq" (psutil.cpu_freq() is None), "nocount"        *)
(*          (psutil.cpu_count(logical=False) is None: psutil could not     *)
(*          determine the physical cores) or "fail";                       *)
(*   parts: one entry per enumerated partition, "ok", or "fail" when       *)
(*          psutil.disk_usage raises for it;                               *)
(*   HAS_GPU: whether "import GPUtil" succeeded (cli.py 15-19);            *)
(*   gpus : one entry per device, "ok", or "bad" when reading the device's *)
(*          fields raises (gpu.load is None, so gpu.load * 100 raises).    *)
(***************************************************************************)
\* the sequences over S of length n, and of length at most n
RECURSIVE SeqsOf(_, _)
SeqsOf(S, n) ==
    IF n = 0 THEN {<<>>} ELSE {Append(t, x) : t \in SeqsOf(S, n - 1), x \in S}
SeqsUpTo(S, n) == UNION {SeqsOf(S, m) : m \in 0..n}

Envs ==
    {e \in [os : {"ok", "fail"}, cpu : {"freq", "nofreq", "nocount", "fail"},
            mem : {"ok", "fail"}, disk : {"ok", "fail"},
            parts : SeqsUpTo({"ok", "fail"}, MaxPartitions),
            HAS_GPU : BOOLEAN, gpu : {"ok", "fail"},
            gpus : SeqsUpTo({"ok", "bad"}, MaxGpus)] :
        /\ e.disk = "fail" => e.parts = <<>>
        /\ ~e.HAS_GPU => (e.gpu = "ok" /\ e.gpus = <<>>)
        /\ e.gpu = "fail" => e.gpus = <<>>}

\* str(e) of the exceptions the facilities raise
OsCause == "uname unavailable"
CpuCause == "cpu counters unavailable"
MemCause == "meminfo unavailable"
DiskCause == "mount table unavailable"
PartCause == "Permission denied"
GpuCause == "nvidia-smi not found"
DevCause == "unsupported operand type(s) for *: 'NoneType' and 'int'"

\* Python's round() to a whole number of steps: half goes to the even one.
RoundHalfEven(n, d) ==
    LET q == n \div d
        r == n % d
    IN IF 2 * r > d \/ (2 * r = d /\ q % 2 = 1) THEN q + 1 ELSE q
\* repr of a float given in hundredths: 1600 is "16.0", 1552 is "15.52"
FloatText(h) ==
    ToString(h \div 100) \o "." \o ToString((h % 100) \div 10)
        \o (IF h % 10 = 0 THEN "" ELSE ToString(h % 10))
\* round(n / (1024 ** 3), 2); byte counts are held in MiB (n = mib * 2^20)
\* to stay inside TLC's integers.
GB(mib) == Num(FloatText(RoundHalfEven(mib * 100, 1024)))
\* round(gpu.load * 100, 1), the load held in thousandths
LoadPct(permille) == Num(ToString(permille \div 10) \o "." \o ToString(permille % 10))

ErrorRecord(what, cause) ==
    Dict(<<"Error">>, <<Str("Failed to get " \o what \o " info: " \o cause)>>)

\* cli.py 95-107
get_os_info(e) ==
    IF e.os = "fail" THEN ErrorRecord("OS", OsCause)
    ELSE Dict(<<"System", "Node Name", "Release", "Version", "Machine", "Processor">>,
              <<Str("Linux"), Str("host"), Str("6.1.0"), Str("#1 SMP"),
                Str("x86_64"), Str("x86_64")>>)

\* Faulty variant of get_cpu_info: without cpu_freq() the frequency keys are
\* left out instead of set to "N/A".
get_cpu_info_omit(e) ==
    IF e.cpu = "fail" THEN ErrorRecord("CPU", CpuCause)
    ELSE IF e.cpu = "nofreq"
    THEN Dict(<<"Physical cores", "Total cores", "CPU Usage per Core (%)",
                "Total CPU Usage (%)">>,
              <<Num("2"), Num("2"), List(<<Num("12.5"), Num("3.0")>>), Num("7.8")>>)
    ELSE Dict(<<"Physical cores", "Total cores", "Max Frequency (MHz)",
                "Min Frequency (MHz)", "Current Frequency (MHz)",
                "CPU Usage per Core (%)", "Total CPU Usage (%)">>,
              <<IF e.cpu = "nocount" THEN None ELSE Num("2"), Num("2"),
                Num("3600.0"), Num("800.0"), Num("2100.5"),
                List(<<Num("12.5"), Num("3.0")>>), Num("7.8")>>)

\* cli.py 40-54
get_cpu_info(e) ==
    IF e.cpu = "fail" THEN ErrorRecord("CPU", CpuCause)
    ELSE LET hasfreq == e.cpu # "nofreq"
         IN Dict(<<"Physical cores", "Total cores", "Max Frequency (MHz)",
                   "Min Frequency (MHz)", "Current Frequency (MHz)",
                   "CPU Usage per Core (%)", "Total CPU Usage (%)">>,
                 <<IF e.cpu = "nocount" THEN None ELSE Num("2"), Num("2"),
                   IF hasfreq THEN Num("3600.0") ELSE Str("N/A"),
                   IF hasfreq THEN Num("800.0") ELSE Str("N/A"),
                   IF hasfreq THEN Num("2100.5") ELSE Str("N/A"),
                   List(<<Num("12.5"), Num("3.0")>>), Num("7.8")>>)

\* cli.py 59-65: the body of the try
memory_query(e) ==
    IF e.mem = "fail" THEN Exc(MemCause)
    ELSE Dict(<<"Total (GB)", "Available (GB)", "Used (GB)", "Percentage (%)">>,
              <<GB(16384), GB(6001), GB(9871), Num("63.4")>>)

\* Faulty variant of get_memory_info: no try around the query.
get_memory_info_unguarded(e) == memory_query(e)

\* cli.py 56-67
get_memory_info(e) ==
    LET r == memory_query(e)
    IN IF IsExc(r) THEN ErrorRecord("memory", r.str) ELSE r

\* p.device of the n-th enumerated partition
Device(n) == "/dev/sda" \o ToString(n)

\* cli.py 75-90: the body of the loop over the partitions, for partition n
partition_record(e, n) ==
    IF e.parts[n] = "fail"
    THEN Dict(<<"Device", "Error">>,
              <<Str(Device(n)), Str("Failed to read partition: " \o PartCause)>>)
    ELSE Dict(<<"Device", "Mountpoint", "File system type", "Total Size (GB)",
                "Used (GB)", "Free (GB)", "Percentage (%)">>,
              <<Str(Device(n)), Str("/mnt/" \o ToString(n)), Str("ext4"),
                GB(100000 * n), GB(37500 * n), GB(62500 * n), Num("37.5")>>)

\* Faulty variant of get_disk_info: no handler inside the loop, so that the
\* first unreadable partition ends the loop in the outer handler.
get_disk_info_noinner(e) ==
    IF e.disk = "fail" THEN List(<<ErrorRecord("disk", DiskCause)>>)
    ELSE IF \E n \in 1..Len(e.parts) : e.parts[n] = "fail"
    THEN LET bad == CHOOSE n \in 1..Len(e.parts) :
                        /\ e.parts[n] = "fail"
                        /\ \A m \in 1..(n - 1) : e.parts[m] = "ok"
         IN List([n \in 1..(bad - 1) |-> partition_record(e, n)]
                    \o <<ErrorRecord("disk", PartCause)>>)
    ELSE List([n \in 1..Len(e.parts) |-> partition_record(e, n)])

\* cli.py 69-93
get_disk_info(e) ==
    IF e.disk = "fail" THEN List(<<ErrorRecord("disk", DiskCause)>>)
    ELSE List([n \in 1..Len(e.parts) |-> partition_record(e, n)])

\* cli.py 118-127: the record of device n; raises when its fields do.
\* The temperature key is written without its degree sign (ASCII only here).
gpu_record(e, n) ==
    IF e.gpus[n] = "bad" THEN Exc(DevCause)
    ELSE Dict(<<"ID", "Name", "Driver Version", "Memory Total (MB)",
                "Memory Used (MB)", "Memory Free (MB)", "Load (%)",
                "Temperature (C)">>,
              <<Num(ToString(n - 1)), Str("GPU " \o ToString(n - 1)), Str("535.54"),
                Num("8192.0"), Num("1024.0"), Num("7168.0"), LoadPct(375),
                Num("55.0")>>)

\* cli.py 115-128: the body of the try; an exception leaves the loop and the try
gpu_query(e) ==
    IF e.gpu = "fail" THEN Exc(GpuCause)
    ELSE IF \E n \in 1..Len(e.gpus) : IsExc(gpu_record(e, n))
    THEN gpu_record(e, CHOOSE n \in 1..Len(e.gpus) :
                        /\ IsExc(gpu_record(e, n))
                        /\ \A m \in 1..(n - 1) : ~IsExc(gpu_record(e, m)))
    ELSE IF Len(e.gpus) = 0
    THEN List(<<Dict(<<"Info">>, <<Str("No GPUs detected")>>)>>)
    ELSE List([n \in 1..Len(e.gpus) |-> gpu_record(e, n)])

\* Faulty variant of get_gpu_info: no HAS_GPU guard, so that without the
\* package the query raises NameError inside the try.
get_gpu_info_unguarded(e) ==
    LET r == IF ~e.HAS_GPU THEN Exc("name 'GPUtil' is not defined") ELSE gpu_query(e)
    IN IF IsExc(r) THEN List(<<ErrorRecord("GPU", r.str)>>) ELSE r

\* cli.py 109-130
get_gpu_info(e) ==
    IF ~e.HAS_GPU
    THEN List(<<Dict(<<"Info">>, <<Str("GPUtil package not installed")>>)>>)
    ELSE LET r == gpu_query(e)
         IN IF IsExc(r) THEN List(<<ErrorRecord("GPU", r.str)>>) ELSE r

\* the facilities the getters query (cli.py 43-51, 59, 73-76, 99-104, 115)
collect_calls(e) ==
    {"platform", "psutil.cpu", "psutil.virtual_memory", "psutil.disk_partitions"}
        \cup (IF Len(e.parts) > 0 THEN {"psutil.disk_usage"} ELSE {})
        \cup (IF e.HAS_GPU THEN {"GPUtil.getGPUs"} ELSE {})

version == "1.0.0"
\* datetime.now().isoformat()
Now == "2026-01-01T12:00:00.000000"

TopKeys == <<"Timestamp", "Version", "OS Info", "CPU Info", "Memory Info",
             "Disk Info", "GPU Info">>

\* cli.py 132-142: the dict display evaluates its values in order; a getter
\* that raises ends it (there is no handler here or in main).
collect_all_info(e) ==
    LET vals == <<Str(Now), Str(version), get_os_info(e), get_cpu_info(e),
                  get_memory_info(e), get_disk_info(e), get_gpu_info(e)>>
    IN IF \E i \in 1..Len(vals) : IsExc(vals[i])
       THEN vals[CHOOSE i \in 1..Len(vals) :
                    IsExc(vals[i]) /\ \A j \in 1..(i - 1) : ~IsExc(vals[j])]
       ELSE Dict(TopKeys, vals)

(***************************************************************************)
(* The reporter.  A renderer yields an outcome                             *)
(*     [exc, out, file, handle, flat]                                      *)
(* exc: the exception that leaves the function ("none" if it returns),     *)
(* out: what it printed, file: the output file afterwards, handle: the     *)
(* state of the file object it opened, flat: its flat_data.                *)
(***************************************************************************)
NoFile == [exists |-> FALSE, rows |-> <<>>, text |-> ""]

\* Where the file system fails during a save: not at all, in open(), in the
\* row-th write, or when the file is flushed and closed.
IOFailures ==
    {[at |-> a, row |-> 0] : a \in {"none", "open", "close"}}
        \cup {[at |-> "write", row |-> k] : k \in 1..MaxFailRow}

\* Faulty variant of csv_rows: the header row is not written.
csv_rows_noheader(flat_data) ==
    [i \in 1..Len(flat_data.keys) |->
        <<flat_data.keys[i], PyStr(flat_data.kids[i])>>]

\* cli.py 150-152: the rows handed to writer.writerow, in order
csv_rows(flat_data) ==
    << <<"Property", "Value">> >>
        \o [i \in 1..Len(flat_data.keys) |->
                <<flat_data.keys[i], PyStr(flat_data.kids[i])>>]

\* cli.py 148, 160: leaving the with block closes the file object, whether
\* the block ended normally or by an exception
with_exit(h) == IF h = "open" THEN "closed" ELSE h

\* cli.py 147-153: the body of the try.  The notices are written without
\* their leading check-mark and cross characters (ASCII only here).
csv_try(d, filename, f) ==
    LET flat_data == flatten_dict(d, "")
        rows == csv_rows(flat_data)
        base == [exc |-> "none", out |-> <<>>, file |-> NoFile,
                 handle |-> "none", flat |-> flat_data]
    IN CASE f.at = "open" ->
                [base EXCEPT !.exc = "OSError: cannot open " \o filename]
         [] f.at = "write" ->
                [base EXCEPT !.exc = "OSError: write failed",
                             !.file = [exists |-> TRUE, text |-> "",
                                       rows |-> SubSeq(rows, 1, f.row - 1)],
                             !.handle = with_exit("open")]
         [] f.at = "close" ->
                [base EXCEPT !.exc = "OSError: flush failed",
                             !.file = [exists |-> TRUE, text |-> "", rows |-> rows],
                             !.handle = with_exit("open")]
         [] OTHER ->
                [base EXCEPT !.file = [exists |-> TRUE, text |-> "", rows |-> rows],
                             !.handle = with_exit("open"),
                             !.out = <<"Successfully saved to " \o filename>>]

\* Faulty variant of save_to_csv: no try/except around the body.
save_to_csv_nocatch(d, filename, f) == csv_try(d, filename, f)

\* cli.py 144-155
save_to_csv(d, filename, f) ==
    LET b == csv_try(d, filename, f)
    IN IF b.exc # "none"
       THEN [b EXCEPT !.exc = "none", !.out = <<"Failed to save CSV: " \o b.exc>>]
       ELSE b

RECURSIVE Spaces(_)
Spaces(n) == IF n = 0 THEN "" ELSE " " \o Spaces(n - 1)

\* json.dumps(v, indent=4) at nesting level lvl.  The strings of the model
\* hold no character that JSON escapes.
RECURSIVE json_text(_, _), json_members(_, _, _)
json_members(v, lvl, n) ==
    LET member == Spaces(4 * (lvl + 1))
                    \o (IF v.kind = "dict" THEN "\"" \o v.keys[n] \o "\": " ELSE "")
                    \o json_text(v.kids[n], lvl + 1)
    IN IF n = Len(v.kids) THEN member
       ELSE member \o ",\n" \o json_members(v, lvl, n + 1)
json_text(v, lvl) ==
    CASE v.kind = "str" -> "\"" \o v.str \o "\""
      [] v.kind = "num" -> v.str
      [] v.kind = "none" -> "null"
      [] v.kind = "dict" ->
            IF Len(v.kids) = 0 THEN "{}"
            ELSE "{\n" \o json_members(v, lvl, 1) \o "\n" \o Spaces(4 * lvl) \o "}"
      [] v.kind = "list" ->
            IF Len(v.kids) = 0 THEN "[]"
            ELSE "[\n" \o json_members(v, lvl, 1) \o "\n" \o Spaces(4 * lvl) \o "]"

\* cli.py 160-162: the body of the try
json_try(d, filename, f) ==
    LET base == [exc |-> "none", out |-> <<>>, file |-> NoFile,
                 handle |-> "none", flat |-> EmptyDict]
        whole == [exists |-> TRUE, rows |-> <<>>, text |-> json_text(d, 0)]
    IN CASE f.at = "open" ->
                [base EXCEPT !.exc = "OSError: cannot open " \o filename]
         [] f.at = "write" ->
                [base EXCEPT !.exc = "OSError: write failed",
                             !.file = [exists |-> TRUE, rows |-> <<>>, text |-> ""],
                             !.handle = with_exit("open")]
         [] f.at = "close" ->
                [base EXCEPT !.exc = "OSError: flush failed",
                             !.file = whole,
                             !.handle = with_exit("open")]
         [] OTHER ->
                [base EXCEPT !.file = whole,
                             !.handle = with_exit("open"),
                             !.out = <<"Successfully saved to " \o filename>>]

\* cli.py 157-164
save_to_json(d, filename, f) ==
    LET b == json_try(d, filename, f)
    IN IF b.exc # "none"
       THEN [b EXCEPT !.exc = "none", !.out = <<"Failed to save JSON: " \o b.exc>>]
       ELSE b

\* f"{d.get(k, 'N/A')}"
Field(d, k) == PyStr(Get(d, k, Str("N/A")))

\* Faulty variant of gpu_section: reads gpu_info['Name'] without the guard
\* and the 'N/A' fallback.
gpu_section_strict(gpus) ==
    IF Len(gpus.kids) = 0
    THEN [exc |-> "IndexError: list index out of range", lines |-> <<>>]
    ELSE LET gpu_info == gpus.kids[1]
         IN IF ~HasKey(gpu_info, "Name")
            THEN [exc |-> "KeyError: 'Name'", lines |-> <<>>]
            ELSE [exc |-> "none",
                  lines |-> <<"\nGPU Information:",
                              "  Name: " \o Field(gpu_info, "Name")>>]

\* cli.py 194-199: the GPU section, from the list under "GPU Info"
gpu_section(gpus) ==
    IF Len(gpus.kids) = 0
    THEN [exc |-> "IndexError: list index out of range", lines |-> <<>>]
    ELSE LET gpu_info == gpus.kids[1]
         IN IF HasKey(gpu_info, "Name") \/ HasKey(gpu_info, "ID")
            THEN [exc |-> "none",
                  lines |-> <<"\nGPU Information:",
                              "  Name: " \o Field(gpu_info, "Name"),
                              "  Memory: " \o Field(gpu_info, "Memory Used (MB)")
                                    \o "/" \o Field(gpu_info, "Memory Total (MB)")
                                    \o " MB",
                              "  Load: " \o Field(gpu_info, "Load (%)") \o "%">>]
            ELSE [exc |-> "none", lines |-> <<>>]

\* cli.py 166-199
print_human_readable(d) ==
    LET os_info == Get(d, "OS Info", EmptyDict)
        cpu_info == Get(d, "CPU Info", EmptyDict)
        mem_info == Get(d, "Memory Info", EmptyDict)
        head == <<"\nSystem Specs Collector v" \o PyStr(Get(d, "Version", Str("1.0.0"))),
                  "==================================================",
                  "Timestamp: " \o PyStr(Get(d, "Timestamp", Str("None"))),
                  "\nOperating System:",
                  "  System: " \o Field(os_info, "System"),
                  "  Version: " \o Field(os_info, "Version"),
                  "  Machine: " \o Field(os_info, "Machine"),
                  "\nCPU Information:",
                  "  Physical Cores: " \o Field(cpu_info, "Physical cores"),
                  "  Total Cores: " \o Field(cpu_info, "Total cores"),
                  "  Current Frequency: " \o Field(cpu_info, "Current Frequency (MHz)")
                        \o " MHz",
                  "  Total Usage: " \o Field(cpu_info, "Total CPU Usage (%)") \o "%",
                  "\nMemory Information:",
                  "  Total: " \o Field(mem_info, "Total (GB)") \o " GB",
                  "  Used: " \o Field(mem_info, "Used (GB)") \o " GB ("
                        \o Field(mem_info, "Percentage (%)") \o "%)">>
        gpu == gpu_section(Get(d, "GPU Info", List(<<EmptyDict>>)))
    IN [exc |-> gpu.exc, out |-> head \o gpu.lines, file |-> NoFile,
        handle |-> "none", flat |-> EmptyDict]

(***************************************************************************)
(* main() (cli.py 201-231) as a state machine.                             *)
(***************************************************************************)
\* args.output, at its default
output == "system_specs"

NoIO == [at |-> "none", row |-> 0]

Init ==
    /\ pc = "start"
    /\ env \in Envs
    /\ fmt \in {"csv", "json", "text"}
    /\ data = EmptyDict
    /\ flat = EmptyDict
    /\ out = <<>>
    /\ file = NoFile
    /\ handle = "none"
    /\ raised = "none"
    /\ io = NoIO
    /\ calls = {}

\* what main() does with the outcome r of the renderer it called
Finish(r, f) ==
    /\ out' = out \o r.out
    /\ file' = r.file
    /\ handle' = r.handle
    /\ flat' = r.flat
    /\ raised' = r.exc
    /\ io' = f
    /\ pc' = IF r.exc = "none" THEN "done" ELSE "crashed"
    /\ UNCHANGED <<env, fmt, data, calls>>

\* cli.py 224: data = collect_all_info()
Collect ==
    /\ pc = "start"
    /\ LET r == collect_all_info(env)
       IN IF IsExc(r)
          THEN /\ raised' = r.str
               /\ pc' = "crashed"
               /\ data' = data
          ELSE /\ data' = r
               /\ pc' = "collected"
               /\ raised' = raised
    /\ calls' = collect_calls(env)
    /\ UNCHANGED <<env, fmt, flat, out, file, handle, io>>

\* cli.py 226-227
SaveCsv ==
    /\ pc = "collected"
    /\ fmt = "csv"
    /\ LET nrows == Len(csv_rows(flatten_dict(data, "")))
       IN \E f \in IOFailures :
            /\ f.at = "write" => f.row <= nrows
            /\ Finish(save_to_csv(data, output \o ".csv", f), f)

\* cli.py 228-229
SaveJson ==
    /\ pc = "collected"
    /\ fmt = "json"
    /\ \E f \in IOFailures :
        /\ f.at = "write" => f.row = 1
        /\ Finish(save_to_json(data, output \o ".json", f), f)

\* cli.py 230-231
PrintText ==
    /\ pc = "collected"
    /\ fmt = "text"
    /\ Finish(print_human_readable(data), NoIO)

Next == Collect \/ SaveCsv \/ SaveJson \/ PrintText

Spec == Init /\ [][Next]_vars

(***************************************************************************)
(* flatten_dict on its own: every nested input within the bounds.          *)
(***************************************************************************)
FlatTopKeys == {"", "A", "A: B", "A [0]"}
FlatInnerKeys == {"", "B"}
FlatScalars == {Num("1"), Num("2")}

KeySeqs(K) ==
    {ks \in SeqsUpTo(K, MaxWidth) :
        \A i, j \in 1..Len(ks) : i # j => ks[i] # ks[j]}
DictsOver(K, V) ==
    UNION {{Dict(ks, vs) : vs \in SeqsOf(V, Len(ks))} : ks \in KeySeqs(K)}
ListsOver(V) == {List(vs) : vs \in SeqsUpTo(V, MaxWidth)}

RECURSIVE FlatValues(_)
FlatValues(depth) ==
    IF depth = 0 THEN FlatScalars \cup {EmptyDict, List(<<>>)}
    ELSE FlatScalars \cup DictsOver(FlatInnerKeys, FlatValues(depth - 1))
            \cup ListsOver(FlatValues(depth - 1))

\* the two inputs the specification names, {"A": {"B": 1, "C": 2}} and {"A": [1, 2]}
FlatExamples ==
    {Dict(<<"A">>, <<Dict(<<"B", "C">>, <<Num("1"), Num("2")>>)>>),
     Dict(<<"A">>, <<List(<<Num("1"), Num("2")>>)>>)}

DefaultEnv ==
    [os |-> "ok", cpu |-> "freq", mem |-> "ok", disk |-> "ok", parts |-> <<>>,
     HAS_GPU |-> FALSE, gpu |-> "ok", gpus |-> <<>>]

InitFlatten ==
    /\ pc = "input"
    /\ \/ \E ks \in KeySeqs(FlatTopKeys) :
            \E vs \in SeqsOf(FlatValues(NestDepth), Len(ks)) : data = Dict(ks, vs)
       \/ data \in FlatExamples
    /\ env = DefaultEnv
    /\ fmt = "text"
    /\ flat = EmptyDict
    /\ out = <<>>
    /\ file = NoFile
    /\ handle = "none"
    /\ raised = "none"
    /\ io = NoIO
    /\ calls = {}

\* flat = flatten_dict(data)
Flatten ==
    /\ pc = "input"
    /\ flat' = flatten_dict(data, "")
    /\ pc' = "flattened"
    /\ UNCHANGED <<env, fmt, data, out, file, handle, raised, io, calls>>

NextFlatten == Flatten

SpecFlatten == InitFlatten /\ [][NextFlatten]_vars

(***************************************************************************)
(* Properties.                                                             *)
(***************************************************************************)
Collected == pc \in {"collected", "done"}
Group(k) == Get(data, k, EmptyDict)

\* the number of scalar leaves of a nested value
RECURSIVE LeafCount(_), LeafSum(_, _)
LeafSum(v, n) == IF n = 0 THEN 0 ELSE LeafCount(v.kids[n]) + LeafSum(v, n - 1)
LeafCount(v) == IF v.kind \in {"dict", "list"} THEN LeafSum(v, Len(v.kids)) ELSE 1

SuccessNotices == {"Successfully saved to " \o output \o x : x \in {".csv", ".json"}}
FailureNotices ==
    {"Failed to save " \o k \o ": " \o c :
        k \in {"CSV", "JSON"},
        c \in {"OSError: cannot open " \o output \o x : x \in {".csv", ".json"}}
                \cup {"OSError: write failed", "OSError: flush failed"}}

AllGroupsFailed ==
    /\ env.os = "fail" /\ env.cpu = "fail" /\ env.mem = "fail"
    /\ env.disk = "fail" /\ (~env.HAS_GPU \/ env.gpu = "fail")

\* C1: once a report exists, rendering it as text, CSV or JSON never raises:
\* no exception reaches the top level and main() does not end by one, also
\* when every fact group of the report is an error or sentinel record.
C1_RenderNeverRaises ==
    data # EmptyDict => (raised = "none" /\ pc # "crashed")

\* C1 witness: the text rendering of a report whose groups all failed has
\* completed, with the "N/A" fallbacks printed.
C1_Witness ==
    /\ pc = "done" /\ fmt = "text" /\ AllGroupsFailed
    /\ out[5] = "  System: N/A"
    /\ out[15] = "  Used: N/A GB (N/A%)"

\* C3: when save_to_csv succeeded, the file holds N + 1 rows for a report of N
\* flattened leaves: the row ["Property", "Value"], then one two-column row
\* per leaf, in flattening order.
C3_CsvRows ==
    (pc = "done" /\ fmt = "csv" /\ out = <<"Successfully saved to " \o output \o ".csv">>)
        => LET fd == flatten_dict(data, "")
               N == Len(fd.keys)
           IN /\ N = LeafCount(data)
              /\ Len(file.rows) = N + 1
              /\ file.rows[1] = <<"Property", "Value">>
              /\ \A i \in 1..N :
                    /\ Len(file.rows[i + 1]) = 2
                    /\ file.rows[i + 1] = <<fd.keys[i], fd.kids[i].str>>

\* C3 witness: a CSV file written in full for a report with disk and GPU records.
C3_Witness ==
    /\ pc = "done" /\ fmt = "csv" /\ io.at = "none"
    /\ out = <<"Successfully saved to " \o output \o ".csv">>
    /\ Len(env.parts) > 0 /\ Len(env.gpus) > 0
    /\ Len(file.rows) > 30

\* C4: get_gpu_info never raises; without the capability its result is
\* exactly [{Info: "GPUtil package not installed"}] and no device is queried;
\* with it and no device, exactly [{Info: "No GPUs detected"}]; when the query
\* fails, the one-element list [{Error: "Failed to get GPU info: <cause>"}].
\* Absence of the capability is never reported under an Error key.
C4_GpuCases ==
    Collected =>
        LET g == Get(data, "GPU Info", EmptyDict)
        IN /\ raised = "none"
           /\ ~env.HAS_GPU =>
                /\ g = List(<<Dict(<<"Info">>, <<Str("GPUtil package not installed")>>)>>)
                /\ "GPUtil.getGPUs" \notin calls
                /\ \A i \in 1..Len(g.kids) : ~HasKey(g.kids[i], "Error")
           /\ (env.HAS_GPU /\ env.gpu = "ok" /\ env.gpus = <<>>) =>
                g = List(<<Dict(<<"Info">>, <<Str("No GPUs detected")>>)>>)
           /\ (env.HAS_GPU /\ env.gpu = "fail") =>
                g = List(<<Dict(<<"Error">>,
                                <<Str("Failed to get GPU info: " \o GpuCause)>>)>>)
           /\ (env.HAS_GPU /\ \E n \in 1..Len(env.gpus) : env.gpus[n] = "bad") =>
                g = List(<<Dict(<<"Error">>,
                                <<Str("Failed to get GPU info: " \o DevCause)>>)>>)

\* C4 witness: a report collected on a host without the GPU package.
C4_Witness ==
    /\ pc = "collected" /\ ~env.HAS_GPU
    /\ Get(data, "GPU Info", EmptyDict).kids[1].keys = <<"Info">>
    /\ "psutil.cpu" \in calls

\* the environment in which every partition can be read
AllPartsOk(e) == [e EXCEPT !.parts = [n \in 1..Len(e.parts) |-> "ok"]]

\* C5: when the enumeration succeeds, get_disk_info returns one record per
\* partition, in order; a partition whose usage read fails has the record
\* {Device, Error: "Failed to read partition: <cause>"}, every other one the
\* record it has when no partition fails.
C5_PartitionIsolation ==
    (Collected /\ env.disk = "ok") =>
        LET dsk == Get(data, "Disk Info", EmptyDict)
            clean == get_disk_info(AllPartsOk(env))
        IN /\ dsk.kind = "list"
           /\ Len(dsk.kids) = Len(env.parts)
           /\ \A n \in 1..Len(env.parts) :
                /\ Get(dsk.kids[n], "Device", None) = Str(Device(n))
                /\ env.parts[n] = "fail" =>
                        dsk.kids[n] =
                            Dict(<<"Device", "Error">>,
                                 <<Str(Device(n)),
                                   Str("Failed to read partition: " \o PartCause)>>)
                /\ env.parts[n] = "ok" =>
                        /\ dsk.kids[n] = clean.kids[n]
                        /\ Len(dsk.kids[n].keys) = 7

\* C5 witness: a collected report in which the first partition failed and a
\* later one was read.
C5_Witness ==
    /\ pc = "collected" /\ env.disk = "ok"
    /\ Len(env.parts) >= 2 /\ env.parts[1] = "fail" /\ env.parts[2] = "ok"
    /\ HasKey(Get(data, "Disk Info", EmptyDict).kids[2], "Mountpoint")

\* C6: GPU entries are independent: with the capability present and several
\* devices detected, a failure reading one device leaves the records of the
\* devices that were read in the result of get_gpu_info.
C6_DeviceIsolation ==
    (Collected /\ env.HAS_GPU /\ env.gpu = "ok") =>
        LET g == Get(data, "GPU Info", EmptyDict)
        IN \A n \in 1..Len(env.gpus) :
                env.gpus[n] = "ok" =>
                    \E i \in 1..Len(g.kids) : g.kids[i] = gpu_record(env, n)

\* the environment in which every group but the one under key k succeeds
OthersOk(e, k) ==
    [os |-> IF k = "OS Info" THEN e.os ELSE "ok",
     cpu |-> IF k = "CPU Info" \/ e.cpu # "fail" THEN e.cpu ELSE "freq",
     mem |-> IF k = "Memory Info" THEN e.mem ELSE "ok",
     disk |-> IF k = "Disk Info" THEN e.disk ELSE "ok",
     parts |-> IF k = "Disk Info" THEN e.parts ELSE [n \in 1..Len(e.parts) |-> "ok"],
     HAS_GPU |-> e.HAS_GPU,
     gpu |-> IF k = "GPU Info" THEN e.gpu ELSE "ok",
     gpus |-> IF k = "GPU Info" THEN e.gpus ELSE [n \in 1..Len(e.gpus) |-> "ok"]]

GroupKeys == {"OS Info", "CPU Info", "Memory Info", "Disk Info", "GPU Info"}

\* C7: collect_all_info never raises and returns a record with exactly the
\* seven top-level keys, whichever groups fail; a failed group holds its error
\* marker and every group holds what it holds when no other group fails.
C7_CollectTotal ==
    pc # "start" =>
        /\ raised = "none"
        /\ data.kind = "dict"
        /\ data.keys = <<"Timestamp", "Version", "OS Info", "CPU Info",
                         "Memory Info", "Disk Info", "GPU Info">>
        /\ env.os = "fail" =>
                Group("OS Info") =
                    Dict(<<"Error">>, <<Str("Failed to get OS info: " \o OsCause)>>)
        /\ env.cpu = "fail" =>
                Group("CPU Info") =
                    Dict(<<"Error">>, <<Str("Failed to get CPU info: " \o CpuCause)>>)
        /\ env.mem = "fail" =>
                Group("Memory Info") =
                    Dict(<<"Error">>, <<Str("Failed to get memory info: " \o MemCause)>>)
        /\ env.disk = "fail" =>
                Group("Disk Info") =
                    List(<<Dict(<<"Error">>,
                                <<Str("Failed to get disk info: " \o DiskCause)>>)>>)
        /\ env.gpu = "fail" =>
                Group("GPU Info") =
                    List(<<Dict(<<"Error">>,
                                <<Str("Failed to get GPU info: " \o GpuCause)>>)>>)
        /\ \A k \in GroupKeys :
                Group(k) = Get(collect_all_info(OthersOk(env, k)), k, EmptyDict)

\* C7 witness: a report collected while the memory query failed and the OS
\* and CPU queries succeeded.
C7_Witness ==
    /\ pc = "collected" /\ env.mem = "fail" /\ env.os = "ok" /\ env.cpu = "freq"
    /\ Group("Memory Info").keys = <<"Error">>
    /\ Len(Group("OS Info").keys) = 6
    /\ Len(Group("CPU Info").keys) = 7

OsKeys == <<"System", "Node Name", "Release", "Version", "Machine", "Processor">>
CpuKeys == <<"Physical cores", "Total cores", "Max Frequency (MHz)",
             "Min Frequency (MHz)", "Current Frequency (MHz)",
             "CPU Usage per Core (%)", "Total CPU Usage (%)">>
MemKeys == <<"Total (GB)", "Available (GB)", "Used (GB)", "Percentage (%)">>
PartKeys == <<"Device", "Mountpoint", "File system type", "Total Size (GB)",
              "Used (GB)", "Free (GB)", "Percentage (%)">>
GpuKeys == <<"ID", "Name", "Driver Version", "Memory Total (MB)", "Memory Used (MB)",
             "Memory Free (MB)", "Load (%)", "Temperature (C)">>

HasAll(rec, ks) == \A i \in 1..Len(ks) : HasKey(rec, ks[i])

C9_SaveFailure ==
    /\ handle # "open"
    /\ (pc \in {"done", "crashed"} /\ fmt \in {"csv", "json"} /\ io.at # "none") =>
            /\ Len(out) = 1
            /\ out[1] \in FailureNotices
            /\ \A i \in 1..Len(out) : out[i] \notin SuccessNotices
            /\ raised = "none"
            /\ pc = "done"
            /\ data = collect_all_info(env)
    /\ (pc = "done" /\ fmt \in {"csv", "json"}) =>
            handle = (IF io.at = "open" THEN "none" ELSE "closed")

\* C9 witness: a CSV save that failed in the second write has returned, the
\* header row alone in the file.
C9_Witness ==
    /\ pc = "done" /\ fmt = "csv" /\ io = [at |-> "write", row |-> 2]
    /\ out = <<"Failed to save CSV: OSError: write failed">>
    /\ file.rows = << <<"Property", "Value">> >>
    /\ handle = "closed"

\* The rule of flattening: a mapping value is flattened under "<parent>: <key>"
\* (under <key> at the top level), an element of a sequence that is a mapping
\* under "<parent> [<index>]", any other element is the pair
\* ("<parent> [<index>]", element), any other value the pair (path, value).
RECURSIVE RuleMapping(_, _, _, _), RuleSequence(_, _, _)
RuleSequence(l, path, n) ==
    IF n > Len(l.kids) THEN <<>>
    ELSE LET here == path \o " [" \o ToString(n - 1) \o "]"
         IN (IF l.kids[n].kind = "dict"
             THEN RuleMapping(l.kids[n], here, FALSE, 1)
             ELSE << <<here, l.kids[n]>> >>)
            \o RuleSequence(l, path, n + 1)
RuleMapping(d, parent, top, n) ==
    IF n > Len(d.keys) THEN <<>>
    ELSE LET path == IF top THEN d.keys[n] ELSE parent \o ": " \o d.keys[n]
         IN (CASE d.kids[n].kind = "dict" -> RuleMapping(d.kids[n], path, FALSE, 1)
               [] d.kids[n].kind = "list" -> RuleSequence(d.kids[n], path, 1)
               [] OTHER -> << <<path, d.kids[n]>> >>)
            \o RuleMapping(d, parent, top, n + 1)

\* C2: for every nested input flatten_dict returns exactly the (path, value)
\* pairs of the rule, in the order of the input.
C2_FlattenFollowsRule ==
    pc = "flattened" => Items(flat) = RuleMapping(data, "", TRUE, 1)

\* C10: flatten_dict keeps the leaves one to one: as many pairs as the input
\* has scalar leaves, and every value of the result a scalar.
C10_LeavesPreserved ==
    pc = "flattened" =>
        /\ Len(flat.keys) = LeafCount(data)
        /\ \A i \in 1..Len(flat.kids) : IsScalar(flat.kids[i])

====
